---------------------------- MODULE Spec2Model ----------------------------
(***************************************************************************)
(* A model of the led crate: the Character encoder and the segment-pin     *)
(* alphanumeric driver (src/src/alphanumeric/mod.rs), the monocolor LED    *)
(* (src/src/mono.rs), the discrete RGB LED (src/src/rgb.rs) and the RGB    *)
(* of src/src/lib.rs.  A program constructs one driver and calls it.       *)
(*                                                                         *)
(* A pin is modelled by the level the driver last put on it: "unset"       *)
(* until the first successful write, then "low" or "high".  Every driver   *)
(* operation records the pin writes it issued, in program order, and the   *)
(* set of those writes that the pin refused; a refused write leaves the    *)
(* pin at its previous level.                                              *)
(***************************************************************************)
EXTENDS Integers, Sequences, FiniteSets

VARIABLES
    fontId,     \* which glyph table font::MAP is (fixed at start, never written)
    driver,     \* the kind of LED driver this program constructed
    glyph,      \* alphanumeric::LED.glyph, a u16
    seg,        \* levels of seg_a .. seg_g and point of alphanumeric::LED
    setArg,     \* the Character last handed to alphanumeric set ({} : none yet)
    monoCommon, \* the polarity C of mono::LED<C, P>
    monoPin,    \* level of mono::LED.pin
    rgbCommon,  \* the polarity C of rgb::DiscreteLED<C, R, G, B>
    rgb,        \* levels of red, green, blue of rgb::DiscreteLED
    libRgb,     \* levels of red, green, blue of the RGB of lib.rs
    lastOp,     \* the driver operation that ran last
    arg,        \* its State or DiscreteColor argument ("none" otherwise)
    writes,     \* the pin writes that operation issued, in order
    failed,     \* the pins whose write failed during that operation
    ret,        \* what that operation returned
    conv        \* the result of the last Character conversion

alnumVars == <<glyph, seg, setArg>>
monoVars == <<monoCommon, monoPin>>
rgbVars == <<rgbCommon, rgb, libRgb>>
logVars == <<lastOp, arg, writes, failed, ret>>
vars == <<fontId, driver, alnumVars, monoVars, rgbVars, logVars, conv>>

-----------------------------------------------------------------------------
(* Bounds of the model *)

\* number of candidate glyph tables
NumFonts == 2

\* most pin writes that fail within one driver operation
MaxFail == 1

\* largest unicode scalar value offered to TryFrom<char>
MaxScalar == 300

\* largest base of the Characters handed to set
MaxBase == 3

-----------------------------------------------------------------------------
(* u16 arithmetic *)

RECURSIVE BitAnd(_, _)
\* a & b on unsigned values
BitAnd(a, b) ==
    IF a = 0 \/ b = 0 THEN 0
    ELSE (a % 2) * (b % 2) + 2 * BitAnd(a \div 2, b \div 2)

RECURSIVE BitOr(_, _)
\* a | b on unsigned values
BitOr(a, b) ==
    IF a = 0 THEN b
    ELSE IF b = 0 THEN a
    ELSE (IF a % 2 = 1 \/ b % 2 = 1 THEN 1 ELSE 0) + 2 * BitOr(a \div 2, b \div 2)

\* bit i of the unsigned value v
Bit(v, i) == (v \div (2 ^ i)) % 2 = 1

-----------------------------------------------------------------------------
(* The glyph table of font.rs, a file that is not at hand: the table is one  *)
(* of NumFonts candidate tables of 128 16-bit patterns, fixed when the      *)
(* program starts.                                                          *)

FontIds == 1 .. NumFonts

\* font::MAP[i], for i in 0 .. 127
font_MAP(i) == (i * 27437 * (2 * fontId - 1) + 257 * (fontId - 1)) % 65536

\* glyph!("    .") : the pattern that lights the decimal point alone
glyph_point == 1

\* glyph!("     ") : the pattern that lights nothing
glyph_blank == 0

-----------------------------------------------------------------------------
(* Character and its conversions *)

\* is_ascii with its limit off by one
is_ascii_upto128(v) == v <= 128

\* u8::is_ascii / char::is_ascii
is_ascii(v) == v <= 127

Ok(c) == [tag |-> "Ok", val |-> {c}, err |-> {}]
Err(e) == [tag |-> "Err", val |-> {}, err |-> {e}]

\* impl TryFrom<u8> for Character
try_from_u8(b) ==
    IF is_ascii(b)
    THEN Ok([base |-> b, point |-> FALSE])
    ELSE Err("NonAscii")

\* impl TryFrom<char> for Character ; `c as u8` truncates to the low byte
try_from_char(c) ==
    IF is_ascii(c)
    THEN Ok([base |-> c % 256, point |-> FALSE])
    ELSE Err("NonAscii")

Bytes == 0 .. 255

\* the unicode scalar values up to MaxScalar (none is a surrogate below 0xD800)
Scalars == 0 .. MaxScalar

NoConv == [kind |-> "none", input |-> 0, result |-> [tag |-> "none", val |-> {}, err |-> {}]]

\* Character::try_from(b) for a byte b
TryFromU8 ==
    /\ \E b \in Bytes :
         conv' = [kind |-> "u8", input |-> b, result |-> try_from_u8(b)]
    /\ UNCHANGED <<fontId, driver, alnumVars, monoVars, rgbVars, logVars>>

\* Character::try_from(c) for a char c
TryFromChar ==
    /\ \E c \in Scalars :
         conv' = [kind |-> "char", input |-> c, result |-> try_from_char(c)]
    /\ UNCHANGED <<fontId, driver, alnumVars, monoVars, rgbVars, logVars>>

\* the values of type Character: base is ASCII (the TryFrom impls are the
\* only constructors of base), point is the struct's bool field
Characters == [base : {b \in Bytes : is_ascii(b)}, point : BOOLEAN]

\* the Characters handed to set in this model
SetCharacters == {c \in Characters : c.base <= MaxBase}

-----------------------------------------------------------------------------
(* alphanumeric::LED, the segment-pin driver *)

SegOrder == <<"seg_a", "seg_b", "seg_c", "seg_d", "seg_e", "seg_f", "seg_g">>
SegPins == {SegOrder[k] : k \in 1 .. 7} \cup {"point"}

\* the masks tested by output_first_half, for seg_a .. seg_g
FirstHalfMasks == <<32768, 16384, 8192, 4096, 2048, 1024, 512>>

\* the second-half masks one bit too high
SecondHalfMasks_shifted == <<256, 128, 64, 32, 16, 8, 4>>

\* the masks tested by output_second_half, for seg_a .. seg_g, and for point
SecondHalfMasks == <<128, 64, 32, 16, 8, 4, 2>>
SecondHalfPointMask == 1

\* if self.glyph & mask == 0 { pin.set_low() } else { pin.set_high() }
Drive(g, mask) == IF BitAnd(g, mask) = 0 THEN "low" ELSE "high"

Write(p, l) == [pin |-> p, level |-> l]

\* output_first_half driving the point pin from bit 8 instead of forcing it low
FirstHalfWrites_point_bit8(g) ==
    [k \in 1 .. 8 |->
        IF k <= 7 THEN Write(SegOrder[k], Drive(g, FirstHalfMasks[k]))
        ELSE Write("point", Drive(g, 256))]

\* the writes of output_first_half, in program order
FirstHalfWrites(g) ==
    [k \in 1 .. 8 |->
        IF k <= 7 THEN Write(SegOrder[k], Drive(g, FirstHalfMasks[k]))
        ELSE Write("point", "low")]

\* output_second_half testing the low byte from bit 0 upwards
SecondHalfWrites_lsb_first(g) ==
    [k \in 1 .. 8 |->
        IF k <= 7 THEN Write(SegOrder[k], Drive(g, SecondHalfMasks[8 - k]))
        ELSE Write("point", Drive(g, 128))]

\* the writes of output_second_half, in program order
SecondHalfWrites(g) ==
    [k \in 1 .. 8 |->
        IF k <= 7 THEN Write(SegOrder[k], Drive(g, SecondHalfMasks[k]))
        ELSE Write("point", Drive(g, SecondHalfPointMask))]

\* the sets of writes to the pins of one driver that may fail together
FailSets(pins) == {F \in SUBSET pins : Cardinality(F) <= MaxFail}
SegFailSets == FailSets(SegPins)

\* the level a pin has after a write of level l that fails or not
PinWrite(old, l, fails) == IF fails THEN old ELSE l

RECURSIVE Apply(_, _, _)
\* pin levels after the writes ws, made in order, those to the pins in F failing
Apply(levels, ws, F) ==
    IF ws = <<>> THEN levels
    ELSE LET w == Head(ws)
         IN  Apply([levels EXCEPT ![w.pin] = PinWrite(@, w.level, w.pin \in F)],
                   Tail(ws), F)

\* set OR-ing the new pattern into the glyph already latched
SetGlyph_accumulating(c) ==
    BitOr(glyph,
          BitOr(font_MAP(BitAnd(c.base, 127)),
                IF c.point THEN glyph_point ELSE glyph_blank))

\* set buffered through a refresh cycle: between the two halves the glyph
\* on display is kept
SetGlyph_kept_mid_cycle(c) ==
    IF lastOp = "output_first_half"
    THEN glyph
    ELSE BitOr(font_MAP(BitAnd(c.base, 127)),
               IF c.point THEN glyph_point ELSE glyph_blank)

\* the glyph latched by set(c)
SetGlyph(c) ==
    BitOr(font_MAP(BitAnd(c.base, 127)),
          IF c.point THEN glyph_point ELSE glyph_blank)

\* set that also drives the first half onto the pins
alphanumeric_set_driving ==
    /\ driver = "alphanumeric"
    /\ \E c \in SetCharacters :
         /\ glyph' = SetGlyph(c)
         /\ setArg' = {c}
         /\ seg' = Apply(seg, FirstHalfWrites(SetGlyph(c)), {})
         /\ writes' = FirstHalfWrites(SetGlyph(c))
    /\ lastOp' = "alphanumeric_set"
    /\ arg' = "none"
    /\ failed' = {}
    /\ ret' = "()"
    /\ UNCHANGED <<fontId, driver, monoVars, rgbVars, conv>>

\* <LED as crate::LED>::set
alphanumeric_set ==
    /\ driver = "alphanumeric"
    /\ \E c \in SetCharacters :
         /\ glyph' = SetGlyph(c)
         /\ setArg' = {c}
    /\ lastOp' = "alphanumeric_set"
    /\ arg' = "none"
    /\ writes' = <<>>
    /\ failed' = {}
    /\ ret' = "()"
    /\ UNCHANGED <<fontId, driver, seg, monoVars, rgbVars, conv>>

\* LED::output_first_half, on pins of which the sets Fs of writes may fail
OutputFirstHalf(Fs) ==
    /\ driver = "alphanumeric"
    /\ \E ws \in {FirstHalfWrites(glyph)} :
         /\ writes' = ws
         /\ \E F \in Fs :
              /\ seg' = Apply(seg, ws, F)
              /\ failed' = F
    /\ lastOp' = "output_first_half"
    /\ arg' = "none"
    /\ ret' = "()"
    /\ UNCHANGED <<fontId, driver, glyph, setArg, monoVars, rgbVars, conv>>

\* output_second_half accepted only right after output_first_half
OutputSecondHalf_after_first(Fs) ==
    /\ driver = "alphanumeric"
    /\ lastOp = "output_first_half"
    /\ \E ws \in {SecondHalfWrites(glyph)} :
         /\ writes' = ws
         /\ \E F \in Fs :
              /\ seg' = Apply(seg, ws, F)
              /\ failed' = F
    /\ lastOp' = "output_second_half"
    /\ arg' = "none"
    /\ ret' = "()"
    /\ UNCHANGED <<fontId, driver, glyph, setArg, monoVars, rgbVars, conv>>

\* LED::output_second_half, on pins of which the sets Fs of writes may fail
OutputSecondHalf(Fs) ==
    /\ driver = "alphanumeric"
    /\ \E ws \in {SecondHalfWrites(glyph)} :
         /\ writes' = ws
         /\ \E F \in Fs :
              /\ seg' = Apply(seg, ws, F)
              /\ failed' = F
    /\ lastOp' = "output_second_half"
    /\ arg' = "none"
    /\ ret' = "()"
    /\ UNCHANGED <<fontId, driver, glyph, setArg, monoVars, rgbVars, conv>>

\* The pins of alphanumeric::LED are embedded_hal::digital::OutputPin, whose
\* set_low and set_high return nothing: no write can report a failure
NoFailure == {{}}
output_first_half == OutputFirstHalf(NoFailure)
output_second_half == OutputSecondHalf(NoFailure)

\* the same operations on pins that may refuse a write
output_first_half_failing == OutputFirstHalf(SegFailSets)
output_second_half_failing == OutputSecondHalf(SegFailSets)

-----------------------------------------------------------------------------
(* Polarity: the marker types CommonAnode and CommonCathode *)

Polarities == {"CommonAnode", "CommonCathode"}

-----------------------------------------------------------------------------
(* mono::LED *)

States == {"On", "Off"}

\* mono.rs, Common::enable : the level written to light the LED
mono_enable(common) == IF common = "CommonAnode" THEN "low" ELSE "high"

\* mono.rs, Common::disable : the level written to darken the LED
mono_disable(common) == IF common = "CommonAnode" THEN "high" ELSE "low"
MonoFailSets == FailSets({"pin"})

\* the write of the inherent mono::LED::set
MonoWrites(common, state) ==
    << Write("pin", IF state = "Off" THEN mono_disable(common)
                                       ELSE mono_enable(common)) >>

\* set handing the pin's Result back to its caller
MonoRet_propagating(r) == IF r = "Ok" THEN "()" ELSE r

\* what <mono::LED as crate::LED>::set returns when the pin write gave r :
\* `let _ = ...` drops r twice over
MonoRet(r) == "()"

\* <mono::LED as crate::LED>::set, through the inherent set
mono_set ==
    /\ driver = "mono"
    /\ \E state \in States, F \in MonoFailSets :
         /\ monoPin' = Apply([pin |-> monoPin], MonoWrites(monoCommon, state), F).pin
         /\ writes' = MonoWrites(monoCommon, state)
         /\ failed' = F
         /\ arg' = state
         /\ ret' = MonoRet(IF F = {} THEN "Ok" ELSE "Err")
    /\ lastOp' = "mono_set"
    /\ UNCHANGED <<fontId, driver, alnumVars, monoCommon, rgbVars, conv>>

-----------------------------------------------------------------------------
(* rgb::DiscreteLED *)

DiscreteColors ==
    {"Red", "Green", "Blue", "Yellow", "Cyan", "Magenta", "White", "Black"}

RgbOrder == <<"red", "green", "blue">>
RgbPins == {"red", "green", "blue"}
RgbFailSets == FailSets(RgbPins)

\* enable with the two polarities exchanged
enable_exchanged(common) == IF common = "CommonAnode" THEN "high" ELSE "low"

\* rgb.rs, Common::enable : the level written to light a component
enable(common) == IF common = "CommonAnode" THEN "low" ELSE "high"

\* rgb.rs, Common::disable : the level written to darken a component
disable(common) == IF common = "CommonAnode" THEN "high" ELSE "low"

\* the arms of the match in DiscreteLED::set : the level written to
\* red, green and blue, in that order
DiscreteWrites(common, color) ==
    LET e == enable(common)
        d == disable(common)
        levels == CASE color = "Red"     -> <<e, d, d>>
                    [] color = "Green"   -> <<d, e, d>>
                    [] color = "Blue"    -> <<d, d, e>>
                    [] color = "Yellow"  -> <<e, e, d>>
                    [] color = "Cyan"    -> <<d, e, e>>
                    [] color = "Magenta" -> <<e, d, e>>
                    [] color = "White"   -> <<e, e, e>>
                    [] color = "Black"   -> <<d, d, d>>
    IN  [k \in 1 .. 3 |-> Write(RgbOrder[k], levels[k])]

\* <DiscreteLED as crate::LED>::set
rgb_set ==
    /\ driver = "rgb"
    /\ \E color \in DiscreteColors, F \in RgbFailSets :
         /\ rgb' = Apply(rgb, DiscreteWrites(rgbCommon, color), F)
         /\ writes' = DiscreteWrites(rgbCommon, color)
         /\ failed' = F
         /\ arg' = color
    /\ lastOp' = "rgb_set"
    /\ ret' = "()"
    /\ UNCHANGED <<fontId, driver, alnumVars, monoVars, rgbCommon, libRgb, conv>>

-----------------------------------------------------------------------------
(* RGB of lib.rs : three pins wired active-low, no polarity parameter *)

Colors == DiscreteColors

\* the arms of the match in RGB::set_color
SetColorWrites(color) ==
    LET levels == CASE color = "Red"     -> <<"low", "high", "high">>
                    [] color = "Green"   -> <<"high", "low", "high">>
                    [] color = "Blue"    -> <<"high", "high", "low">>
                    [] color = "Yellow"  -> <<"low", "low", "high">>
                    [] color = "Cyan"    -> <<"high", "low", "low">>
                    [] color = "Magenta" -> <<"low", "high", "low">>
                    [] color = "White"   -> <<"low", "low", "low">>
                    [] color = "Black"   -> <<"high", "high", "high">>
    IN  [k \in 1 .. 3 |-> Write(RgbOrder[k], levels[k])]

\* RGB::set_color
set_color ==
    /\ driver = "lib_rgb"
    /\ \E color \in Colors :
         /\ libRgb' = Apply(libRgb, SetColorWrites(color), {})
         /\ writes' = SetColorWrites(color)
         /\ arg' = color
    /\ failed' = {}
    /\ lastOp' = "set_color"
    /\ ret' = "()"
    /\ UNCHANGED <<fontId, driver, alnumVars, monoVars, rgbCommon, rgb, conv>>

-----------------------------------------------------------------------------
(* Specifications *)

Drivers == {"alphanumeric", "mono", "rgb", "lib_rgb"}

\* a glyph field with every segment bit set
NewGlyph_all_segments == 2 ^ 16 - 1

\* the glyph field as alphanumeric::LED::new sets it
NewGlyph == 0

\* The program has constructed one driver: alphanumeric::LED::new,
\* mono::LED::new, rgb::DiscreteLED::new or RGB::new stored the pins it was
\* given, wrote to none of them, and returned the driver.
Init ==
    /\ fontId \in FontIds
    /\ driver \in Drivers
    /\ glyph = NewGlyph
    /\ seg = [p \in SegPins |-> "unset"]
    /\ setArg = {}
    /\ monoCommon \in (IF driver = "mono" THEN Polarities ELSE {"none"})
    /\ monoPin = "unset"
    /\ rgbCommon \in (IF driver = "rgb" THEN Polarities ELSE {"none"})
    /\ rgb = [p \in RgbPins |-> "unset"]
    /\ libRgb = [p \in RgbPins |-> "unset"]
    /\ lastOp = "new"
    /\ arg = "none"
    /\ writes = <<>>
    /\ failed = {}
    /\ ret = "LED"
    /\ conv = NoConv

\* the Character encoder alone, beside one alphanumeric driver
InitChar == Init /\ driver = "alphanumeric" /\ fontId = 1
NextChar == TryFromU8 \/ TryFromChar
SpecChar == InitChar /\ [][NextChar]_vars

\* the drivers; the pins of alphanumeric::LED cannot report a failure
Next ==
    \/ alphanumeric_set
    \/ output_first_half
    \/ output_second_half
    \/ mono_set
    \/ rgb_set
    \/ set_color
Spec == Init /\ [][Next]_vars

\* the drivers, the pins of alphanumeric::LED refusing writes as well
NextFail ==
    \/ alphanumeric_set
    \/ output_first_half_failing
    \/ output_second_half_failing
    \/ mono_set
    \/ rgb_set
    \/ set_color
SpecFail == Init /\ [][NextFail]_vars

-----------------------------------------------------------------------------
(* Properties *)

HalfOutputs == {"output_first_half", "output_second_half"}

\* C1: a conversion succeeds exactly when its input is at most 127; it then
\* yields Character{base = input, point = false}; above 127 it fails with
\* NonAscii and yields no Character.
C1_ValidationGate ==
    conv.kind # "none" =>
        /\ conv.result.tag = "Ok" <=> conv.input <= 127
        /\ conv.input <= 127 =>
             /\ conv.result.val = {[base |-> conv.input, point |-> FALSE]}
             /\ conv.result.err = {}
        /\ conv.input > 127 =>
             /\ conv.result.tag = "Err"
             /\ conv.result.err = {"NonAscii"}
             /\ conv.result.val = {}

\* the largest accepted byte has been converted
C1_Witness ==
    /\ conv.kind = "u8"
    /\ conv.input = 127
    /\ conv.result.tag = "Ok"

\* C2: set performs no pin write and leaves every pin level as it was; the
\* levels of the eight pins change only in a step that is output_first_half
\* or output_second_half.
C2_SetWritesNoPin ==
    [][ /\ lastOp' = "alphanumeric_set" => (seg' = seg /\ writes' = <<>>)
        /\ seg' # seg => lastOp' \in HalfOutputs ]_vars

\* set has run after a half-output that drove some pin high
C2_Witness ==
    /\ lastOp = "alphanumeric_set"
    /\ \E p \in SegPins : seg[p] = "high"
    /\ \E p \in SegPins : seg[p] = "low"

\* C3: after output_first_half, seg_a .. seg_g are high exactly when bits
\* 15 .. 9 of the latched glyph are set, low otherwise, and the point pin is
\* low whatever the point flag, bit 8 and bit 0 are.
C3_FirstHalfLevels ==
    lastOp = "output_first_half" =>
        /\ \A k \in 1 .. 7 :
             seg[SegOrder[k]] = (IF Bit(glyph, 16 - k) THEN "high" ELSE "low")
        /\ seg["point"] = "low"

\* the first half of a glyph with the point flag, bit 8 and bit 0 all set
C3_Witness ==
    /\ lastOp = "output_first_half"
    /\ \E c \in setArg : c.point
    /\ Bit(glyph, 8)
    /\ Bit(glyph, 0)
    /\ \E k \in 1 .. 7 : seg[SegOrder[k]] = "high"

\* C4: after output_second_half, seg_a .. seg_g are high exactly when bits
\* 7 .. 1 of the latched glyph are set, low otherwise, and the point pin is
\* high exactly when bit 0 is set.
C4_SecondHalfLevels ==
    lastOp = "output_second_half" =>
        /\ \A k \in 1 .. 7 :
             seg[SegOrder[k]] = (IF Bit(glyph, 8 - k) THEN "high" ELSE "low")
        /\ seg["point"] = (IF Bit(glyph, 0) THEN "high" ELSE "low")

\* the second half of a glyph that differs from its first half, point lit
C4_Witness ==
    /\ lastOp = "output_second_half"
    /\ seg["point"] = "high"
    /\ \E k \in 1 .. 7 : Bit(glyph, 8 - k) # Bit(glyph, 16 - k)
    /\ \E k \in 1 .. 7 : seg[SegOrder[k]] = "low"

\* C5: the glyph latched by set(c) is, bit for bit, MAP[c.base & 0x7F] with
\* the point pattern OR-ed in when c.point; the index is within 0 .. 127 for
\* every u8; nothing of the previous glyph survives; without the point flag
\* the glyph is the table entry.
C5_SetLatchesGlyph ==
    /\ \A b \in Bytes : BitAnd(b, 127) \in 0 .. 127
    /\ \A c \in setArg :
         /\ \A i \in 0 .. 15 :
              Bit(glyph, i) <=>
                  \/ Bit(font_MAP(c.base % 128), i)
                  \/ c.point /\ Bit(glyph_point, i)
         /\ ~ c.point => glyph = font_MAP(c.base % 128)

\* set has replaced a glyph whose bit 15 or bit 7 was set and shown by one
\* that has neither, with the point flag
C5_Witness ==
    /\ lastOp = "alphanumeric_set"
    /\ seg["seg_a"] = "high"
    /\ ~ Bit(glyph, 15)
    /\ ~ Bit(glyph, 7)
    /\ \E c \in setArg : c.point /\ ~ Bit(font_MAP(c.base), 0)

\* C6: from any Character the encoder has an operation (with_decimal_point)
\* that yields a Character with the same base and point = true.
C6_PointConstructible ==
    \A c \in conv.result.val :
        ENABLED (NextChar /\ conv'.result = Ok([base |-> c.base, point |-> TRUE]))

\* C7 as stated: every set issues exactly two set-column calls, column 0 with
\* the low byte and column 1 with the high byte of the glyph, bit i as row i.
Rows(byte) == [i \in 0 .. 7 |-> Bit(byte, i)]
GlyphOf(c) ==
    LET m == font_MAP(c.base)
    IN  IF c.point /\ BitAnd(m, glyph_point) = 0 THEN m + glyph_point ELSE m

C8_State ==
    /\ lastOp = "mono_set" =>
         /\ ret = "()"
         /\ Len(writes) = 1
    /\ lastOp \in HalfOutputs =>
         /\ ret = "()"
         /\ Len(writes) = 8
         /\ \A p \in SegPins : Cardinality({k \in 1 .. 8 : writes[k].pin = p}) = 1

C8_Step ==
    lastOp' \in HalfOutputs \cup {"mono_set"} =>
        /\ glyph' = glyph
        /\ setArg' = setArg

\* C8: whichever pin writes fail, monocolor set and the two half-outputs
\* return unit, still issue every write of the operation (one, and one to
\* each of the eight pins), and leave the latched glyph as it was.
C8_FailuresDiscarded == [] C8_State /\ [][C8_Step]_vars

\* the first write of a first half failed; the operation went on and returned
C8_Witness ==
    /\ lastOp = "output_first_half"
    /\ failed = {"seg_a"}
    /\ Len(writes) = 8
    /\ ret = "()"
    /\ glyph # 0

\* the components the claim gives each colour
Components(color) ==
    CASE color = "Red"     -> {"red"}
      [] color = "Green"   -> {"green"}
      [] color = "Blue"    -> {"blue"}
      [] color = "Yellow"  -> {"red", "green"}
      [] color = "Cyan"    -> {"green", "blue"}
      [] color = "Magenta" -> {"red", "blue"}
      [] color = "White"   -> {"red", "green", "blue"}
      [] color = "Black"   -> {}

\* the level the claim gives pin p for a colour, enable being e and disable d
Expected(color, p, e, d) == IF p \in Components(color) THEN e ELSE d

C9_Table(levels, e, d) ==
    /\ Len(writes) = 3
    /\ \A p \in RgbPins : Cardinality({k \in 1 .. 3 : writes[k].pin = p}) = 1
    /\ \A k \in 1 .. 3 : writes[k].level = Expected(arg, writes[k].pin, e, d)
    /\ \A p \in RgbPins \ failed : levels[p] = Expected(arg, p, e, d)

\* C9: set writes each of red, green and blue once, enabling exactly the
\* colour's components, enable being low for common anode and high for common
\* cathode; the eight colours give eight different write vectors; the levels
\* reached depend on the colour alone.  RGB::set_color of lib.rs does the
\* same with enable low.
C9_DiscreteTable ==
    /\ lastOp = "rgb_set" =>
         IF rgbCommon = "CommonAnode"
         THEN C9_Table(rgb, "low", "high")
         ELSE C9_Table(rgb, "high", "low")
    /\ lastOp = "set_color" => C9_Table(libRgb, "low", "high")
    /\ \A pol \in Polarities : \A c1, c2 \in DiscreteColors :
         c1 # c2 => DiscreteWrites(pol, c1) # DiscreteWrites(pol, c2)

\* Magenta on a common-cathode LED: red and blue high, green low
C9_Witness ==
    /\ lastOp = "rgb_set"
    /\ arg = "Magenta"
    /\ rgbCommon = "CommonCathode"
    /\ failed = {}
    /\ rgb = [red |-> "high", green |-> "low", blue |-> "high"]

\* the pin levels that a half h of glyph g amounts to
HalfLevels(h, g) ==
    LET top == IF h = "output_first_half" THEN 16 ELSE 8
    IN  [p \in SegPins |->
            IF p = "point"
            THEN (IF h = "output_second_half" /\ Bit(g, 0) THEN "high" ELSE "low")
            ELSE LET k == CHOOSE j \in 1 .. 7 : SegOrder[j] = p
                 IN  IF Bit(g, top - k) THEN "high" ELSE "low"]

C10_State ==
    driver = "alphanumeric" =>
        /\ ENABLED alphanumeric_set
        /\ ENABLED output_first_half
        /\ ENABLED output_second_half
        /\ lastOp \in HalfOutputs => (ret = "()" /\ seg = HalfLevels(lastOp, glyph))

C10_Step ==
    /\ lastOp' \in HalfOutputs => glyph' = glyph
    /\ (lastOp' \in HalfOutputs /\ lastOp' = lastOp) => seg' = seg

\* C10: set and both half-outputs are enabled in every state of the driver
\* and return unit; a half-output leaves the glyph alone; the levels after it
\* are those of the glyph and the half, whatever came before; the same half
\* again changes nothing.
C10_AnyOrder == [] C10_State /\ [][C10_Step]_vars

\* a second half has been output for a glyph whose halves differ
C10_Witness ==
    /\ lastOp = "output_second_half"
    /\ setArg # {}
    /\ HalfLevels("output_first_half", glyph) # seg
    /\ \E p \in SegPins : seg[p] = "high"

C11_Step ==
    /\ lastOp' \in HalfOutputs =>
         \A c \in setArg : seg' = HalfLevels(lastOp', GlyphOf(c))
    /\ lastOp' = "alphanumeric_set" => seg' = seg

\* C11: a half-output presents its half of the glyph of the Character given
\* to the most recent set, whether or not the other half of that Character
\* was ever output; a set between the two halves leaves the first half of the
\* earlier Character on the pins, so that the second half that follows is of
\* another Character than the first.
C11_SetTakesEffectAtNextHalf == [][C11_Step]_vars

\* set(c1), output_first_half, set(c2) have run, the pins show the high byte
\* of c1, whose bytes both differ from those of c2, and output_second_half
\* now puts the low byte of c2 on them
C11_Witness ==
    /\ lastOp = "alphanumeric_set"
    /\ \A c \in SetCharacters : seg # HalfLevels("output_second_half", GlyphOf(c))
    /\ \E c1 \in SetCharacters, c2 \in setArg :
         /\ GlyphOf(c1) \div 256 # GlyphOf(c2) \div 256
         /\ GlyphOf(c1) % 256 # GlyphOf(c2) % 256
         /\ seg = HalfLevels("output_first_half", GlyphOf(c1))
         /\ seg # HalfLevels("output_first_half", GlyphOf(c2))
         /\ ENABLED (/\ output_second_half
                     /\ seg' = HalfLevels("output_second_half", GlyphOf(c2)))

\* C12: a driver just constructed holds glyph 0 and has written to no pin;
\* a half-output made before any set writes low to each of the eight pins,
\* leaving seg_a .. seg_g and point low.
C12_NewDriverBlank ==
    /\ (driver = "alphanumeric" /\ lastOp = "new") =>
         /\ glyph = 0
         /\ writes = <<>>
         /\ \A p \in SegPins : seg[p] = "unset"
    /\ (lastOp \in HalfOutputs /\ setArg = {}) =>
         /\ Len(writes) = 8
         /\ {writes[k].pin : k \in 1 .. 8} = SegPins
         /\ \A k \in 1 .. 8 : writes[k].level = "low"
         /\ \A p \in SegPins : seg[p] = "low"

\* a second half has been output before any set, every pin driven low
C12_Witness ==
    /\ lastOp = "output_second_half"
    /\ setArg = {}
    /\ glyph = 0
    /\ \A p \in SegPins : seg[p] = "low"

=============================================================================
